---- MODULE Spec2Model ----
(***************************************************************************)
(* Model of src/src/App.vue: the filter state of the transit dashboard,    *)
(* the computed views derived from it (stopsFilteredByType, visibleStops,  *)
(* stats), and the two Leaflet layers that the drawing functions rebuild.  *)
(*                                                                         *)
(* Strings that the code inspects character by character (line names, the  *)
(* search text) are sequences of one-character strings; strings the code   *)
(* only copies (colours, icons, stop names) are plain strings.             *)
(***************************************************************************)
EXTENDS Integers, Sequences, FiniteSets, TLC

VARIABLES
    stopsData,      \* Stop[]: sequence of [stop_id, stop_name]
    stopsMeta,      \* Record<string, StopMeta>: function stop_id -> [is_tram, lines]
    shapesData,     \* Object.values(shapesData): sequence of [route_name, color]
    mounted,        \* onMounted has run
    layersReady,    \* markersLayer.value / shapesLayer.value are non-null
    markersLayer,   \* the markers held by the cluster layer, in insertion order
    shapesLayer,    \* the polylines held by the layer group, in insertion order
    showStops,
    showBus,
    showTram,
    showAllLines,
    searchQuery,
    selectedLines,
    drawCalls       \* the drawing functions the most recent handler called, in order

dataVars   == <<stopsData, stopsMeta, shapesData>>
filterVars == <<showStops, showBus, showTram, showAllLines, searchQuery, selectedLines>>
vars == <<stopsData, stopsMeta, shapesData, mounted, layersReady, markersLayer,
          shapesLayer, showStops, showBus, showTram, showAllLines, searchQuery,
          selectedLines, drawCalls>>

----------------------------------------------------------------------------
(* Bounds of the model *)

MaxStops == 1          \* stops of an enumerated dataset
MaxSearchLen == 2      \* characters of the search text
MaxShortSearchLen == 1 \* the same where the text plays no part in what is checked

----------------------------------------------------------------------------
(* Sequence and string helpers *)

Range(s) == LET t == s IN {t[i] : i \in 1..Len(t)}

MinOf(S) == CHOOSE x \in S : \A y \in S : x <= y
MaxOf(S) == CHOOSE x \in S : \A y \in S : x >= y

SeqsUpTo(S, n) == UNION {[1..k -> S] : k \in 0..n}

\* String.prototype.toLowerCase on the letters the model uses
LowerOf == [c \in {"A", "B", "C", "D", "E", "F", "H", "L", "T"} |->
              CASE c = "A" -> "a" [] c = "B" -> "b" [] c = "C" -> "c"
                [] c = "D" -> "d" [] c = "E" -> "e" [] c = "F" -> "f"
                [] c = "H" -> "h" [] c = "L" -> "l" [] c = "T" -> "t"]

toLowerCase(s) == [i \in 1..Len(s) |-> IF s[i] \in DOMAIN LowerOf THEN LowerOf[s[i]] ELSE s[i]]

WhiteSpace == {" "}

\* String.prototype.trim: drops leading and trailing white space
trim(s) ==
    LET keep == {i \in 1..Len(s) : s[i] \notin WhiteSpace}
    IN  IF keep = {} THEN <<>> ELSE SubSeq(s, MinOf(keep), MaxOf(keep))

\* String.prototype.includes
includes(s, q) == \E i \in 1..(Len(s) - Len(q) + 1) : SubSeq(s, i, i + Len(q) - 1) = q

----------------------------------------------------------------------------
(* Datasets: stops.json, stops_metadata.json and shapes_lite.json are read   *)
(* once and never written.  The initial state draws them from the datasets  *)
(* below.                                                                   *)

\* line names
ABC == <<"A", "B", "C">>
B7  == <<"B", "7">>
C1  == <<"C", "1">>
c2  == <<"c", "2">>
D3  == <<"D", "3">>
E4  == <<"E", "4">>
F5  == <<"F", "5">>
Hc  == <<"H", " ", "c">>
L1  == <<"L", "1">>
T1  == <<"T", "1">>

StopName(id) == CASE id = 1 -> "Commerce" [] id = 2 -> "Vincent Gâche" [] OTHER -> "Gare Nord"

StopsUpTo(n) == [i \in 1..n |-> [stop_id |-> i, stop_name |-> StopName(i)]]

\* a stop's line list has no repeated name
LineLists(S) == {l \in SeqsUpTo(S, Cardinality(S)) : \A i, j \in 1..Len(l) : i # j => l[i] # l[j]}

MetaValues == [is_tram : BOOLEAN, lines : LineLists({C1, D3})]

\* C1 has two shape fragments of different colours, B7 serves no stop, D3 has no shape
SmallShapes == << [route_name |-> C1, color |-> "#e2001a"],
                  [route_name |-> B7, color |-> "#007a45"],
                  [route_name |-> C1, color |-> "#0055a4"] >>

\* every dataset of at most MaxStops stops over the lines C1 and D3, each stop
\* with or without a metadata entry
EnumeratedDatasets ==
    UNION { { [stops |-> StopsUpTo(n), meta |-> m, shapes |-> SmallShapes] :
                m \in UNION {[D -> MetaValues] : D \in SUBSET (1..n)} } :
            n \in 0..MaxStops }

\* no stop, no metadata, no shape
EmptyDataset == [stops |-> <<>>, meta |-> <<>>, shapes |-> <<>>]

\* a tram stop on T1 and a bus stop on L1 and T1; T1 has a shape
ScenarioDataset ==
    [stops  |-> StopsUpTo(2),
     meta   |-> (1 :> [is_tram |-> TRUE,  lines |-> <<T1>>]) @@
                (2 :> [is_tram |-> FALSE, lines |-> <<L1, T1>>]),
     shapes |-> << [route_name |-> T1, color |-> "#007a45"] >>]

\* a dataset with more lines than the sidebar shows at once
WideDataset ==
    [stops  |-> StopsUpTo(2),
     meta   |-> (1 :> [is_tram |-> TRUE,  lines |-> <<ABC, C1, D3>>]) @@
                (2 :> [is_tram |-> FALSE, lines |-> <<c2, C1, E4, F5, Hc>>]),
     shapes |-> << [route_name |-> C1, color |-> "#e2001a"],
                   [route_name |-> c2, color |-> "#f7a600"],
                   [route_name |-> B7, color |-> "#007a45"],
                   [route_name |-> C1, color |-> "#0055a4"] >>]

Datasets == EnumeratedDatasets \cup {EmptyDataset, ScenarioDataset, WideDataset}

\* the search texts a user can type
SearchAlphabet == {"C", " "}
SearchTexts == SeqsUpTo(SearchAlphabet, MaxSearchLen)

----------------------------------------------------------------------------
(* Helpers *)

hasMeta(stop) == stop.stop_id \in DOMAIN stopsMeta
metaOf(stop)  == stopsMeta[stop.stop_id]


\* variant: the first shape of a line gives its colour
lineColors_firstWins ==
    [name \in {shapesData[i].route_name : i \in 1..Len(shapesData)} |->
        shapesData[MinOf({i \in 1..Len(shapesData) : shapesData[i].route_name = name})].color]

\* colors[shape.route_name] = shape.color for each shape in turn: the last one stays
lineColors ==
    [name \in {shapesData[i].route_name : i \in 1..Len(shapesData)} |->
        shapesData[MaxOf({i \in 1..Len(shapesData) : shapesData[i].route_name = name})].color]

----------------------------------------------------------------------------
(* Computed properties *)


\* variant: a stop without metadata is of no mode and passes the type filter
passesTypeFilter_noMetaPasses(stop) ==
    IF ~hasMeta(stop) THEN TRUE
    ELSE /\ ~(metaOf(stop).is_tram /\ ~showTram)
         /\ ~(~metaOf(stop).is_tram /\ ~showBus)

passesTypeFilter(stop) ==
    LET isTram == IF hasMeta(stop) THEN metaOf(stop).is_tram ELSE FALSE
    IN  /\ ~(isTram /\ ~showTram)
        /\ ~(~isTram /\ ~showBus)

stopsFilteredByType == SelectSeq(stopsData, passesTypeFilter)


\* variant: every line of the stop must be selected (every for some)
onSelectedLine_every(stop) ==
    IF ~hasMeta(stop) THEN FALSE
    ELSE \A i \in 1..Len(metaOf(stop).lines) : metaOf(stop).lines[i] \in selectedLines

onSelectedLine(stop) ==
    IF ~hasMeta(stop) THEN FALSE
    ELSE \E i \in 1..Len(metaOf(stop).lines) : metaOf(stop).lines[i] \in selectedLines


\* variant: a line filter that leaves no stop falls back to the type filter
visibleStops_fallback ==
    IF ~showStops THEN <<>>
    ELSE IF Cardinality(selectedLines) = 0 THEN stopsFilteredByType
    ELSE LET onLine == SelectSeq(stopsFilteredByType, onSelectedLine)
         IN  IF onLine = <<>> THEN stopsFilteredByType ELSE onLine

visibleStops ==
    IF ~showStops THEN <<>>
    ELSE IF Cardinality(selectedLines) = 0 THEN stopsFilteredByType
    ELSE SelectSeq(stopsFilteredByType, onSelectedLine)


\* variant: the aggregation scans the stops left after the line filter
statsStops_visible == visibleStops

\* stats: the stops the aggregation scans
statsStops == stopsFilteredByType


\* variant: a stop without metadata counts as a bus stop
busCount_countsBare ==
    LET scanned == statsStops
    IN  Cardinality({i \in 1..Len(scanned) :
                        ~hasMeta(scanned[i]) \/ ~metaOf(scanned[i]).is_tram})

busCount ==
    LET scanned == statsStops
    IN  Cardinality({i \in 1..Len(scanned) :
                        hasMeta(scanned[i]) /\ ~metaOf(scanned[i]).is_tram})

tramCount ==
    LET scanned == statsStops
    IN  Cardinality({i \in 1..Len(scanned) :
                        hasMeta(scanned[i]) /\ metaOf(scanned[i]).is_tram})

\* In the loops below, CHOOSE result \in {f(next) : next \in {e}} : TRUE is
\* f applied to the value of e: next holds that value the way a local
\* variable of the code does.

\* linesMap.set(line, (linesMap.get(line) || 0) + 1) on a Map kept as the
\* sequence of its entries in insertion order
linesMapSet(m, line) ==
    IF \E i \in 1..Len(m) : m[i].name = line
    THEN [i \in 1..Len(m) |->
            IF m[i].name = line THEN [name |-> line, count |-> m[i].count + 1] ELSE m[i]]
    ELSE Append(m, [name |-> line, count |-> 1])

\* meta.lines.forEach((line) => linesMap.set(...)); the Map reached after a
\* line is a value before the next line is handled
RECURSIVE addLines(_, _)
addLines(m, lines) ==
    IF lines = <<>> THEN m
    ELSE CHOOSE result \in {addLines(next, Tail(lines)) :
                               next \in {linesMapSet(m, Head(lines))}} : TRUE

\* stopsFilteredByType.value.forEach((stop) => { if (meta) { ... } })
RECURSIVE aggregate(_, _)
aggregate(m, stops) ==
    IF stops = <<>> THEN m
    ELSE CHOOSE result \in {aggregate(next, Tail(stops)) :
                               next \in {IF hasMeta(Head(stops))
                                         THEN addLines(m, metaOf(Head(stops)).lines)
                                         ELSE m}} : TRUE

linesMap == aggregate(<<>>, statsStops)

\* the comparator (a, b) => b[1] - a[1]
compare(a, b) == b.count - a.count


\* variant: an entry goes in front of the entries it ties with
insertSorted_unstable(sorted, x) ==
    LET k == Cardinality({i \in 1..Len(sorted) : compare(sorted[i], x) < 0})
    IN  SubSeq(sorted, 1, k) \o <<x>> \o SubSeq(sorted, k + 1, Len(sorted))

\* Array.prototype.sort is stable: an entry goes behind every entry that
\* does not compare greater than it
insertSorted(sorted, x) ==
    LET k == Cardinality({i \in 1..Len(sorted) : compare(sorted[i], x) <= 0})
    IN  SubSeq(sorted, 1, k) \o <<x>> \o SubSeq(sorted, k + 1, Len(sorted))

RECURSIVE sortFrom(_, _, _)
sortFrom(sorted, entries, n) ==
    IF n > Len(entries) THEN sorted
    ELSE CHOOSE result \in {sortFrom(next, entries, n + 1) :
                               next \in {insertSorted(sorted, entries[n])}} : TRUE

\* Array.from(linesMap.entries()).sort((a, b) => b[1] - a[1])
sortEntries(entries) == sortFrom(<<>>, entries, 1)

rankedLines == CHOOSE result \in {sortEntries(entries) : entries \in {linesMap}} : TRUE


\* variant: the line name is compared as written
matchesQuery_caseSensitive(l) == includes(l.name, toLowerCase(searchQuery))

matchesQuery(l) == includes(toLowerCase(l.name), toLowerCase(searchQuery))

\* sortedLines after the search filter
sortedLines ==
    IF trim(searchQuery) # <<>> THEN SelectSeq(rankedLines, matchesQuery) ELSE rankedLines

SliceLimit == 6

\* sortedLines.slice(0, 6)
firstLines(l) == SubSeq(l, 1, IF Len(l) < SliceLimit THEN Len(l) ELSE SliceLimit)


\* variant: a blank search text does not lift the limit
displayedLines_trimmed ==
    IF showAllLines \/ trim(searchQuery) # <<>>
    THEN sortedLines
    ELSE CHOOSE result \in {firstLines(all) : all \in {sortedLines}} : TRUE

displayedLines ==
    IF showAllLines \/ searchQuery # <<>>
    THEN sortedLines
    ELSE CHOOSE result \in {firstLines(all) : all \in {sortedLines}} : TRUE

stats == [busCount |-> busCount, tramCount |-> tramCount,
          displayedLines |-> displayedLines, totalLines |-> Len(sortedLines)]

----------------------------------------------------------------------------
(* Drawing functions: each clears its layer and adds the primitives again *)

FallbackColor == "#3b82f6"

\* colors[line] || '#3b82f6'
badgeColor(line) ==
    IF line \in DOMAIN lineColors /\ lineColors[line] # "" THEN lineColors[line] ELSE FallbackColor

imageFor(stop) ==
    IF stop.stop_name = "Vincent Gâche" THEN "WbbaBkg.jpeg"
    ELSE IF stop.stop_name = "Commerce" THEN "4GEU71O.png"
    ELSE ""

markerFor(stop) ==
    LET isTram == IF hasMeta(stop) THEN metaOf(stop).is_tram ELSE FALSE
        lines  == IF hasMeta(stop) THEN metaOf(stop).lines ELSE <<>>
    IN  [stop_id   |-> stop.stop_id,
         stop_name |-> stop.stop_name,
         badges    |-> [i \in 1..Len(lines) |-> [line |-> lines[i], color |-> badgeColor(lines[i])]],
         image     |-> imageFor(stop),
         icon      |-> IF isTram THEN "tramSVG" ELSE "busSVG"]

\* the markers drawStops leaves in markersLayer
drawStops ==
    LET shown == visibleStops
    IN  [i \in 1..Len(shown) |-> markerFor(shown[i])]


\* variant: one hidden mode is enough to skip the shape
shapeDrawn_eitherModeOff(shape) ==
    /\ ~(~showBus \/ ~showTram)
    /\ ~(Cardinality(selectedLines) > 0 /\ shape.route_name \notin selectedLines)

shapeDrawn(shape) ==
    /\ ~(~showBus /\ ~showTram)
    /\ ~(Cardinality(selectedLines) > 0 /\ shape.route_name \notin selectedLines)

polylineFor(shape) == [route_name |-> shape.route_name, color |-> shape.color]

\* the polylines drawShapes leaves in shapesLayer
drawShapes ==
    LET kept == SelectSeq(shapesData, shapeDrawn)
    IN  [i \in 1..Len(kept) |-> polylineFor(kept[i])]


\* variant: the layers are not cleared before the primitives are added
redraw_noClear ==
    /\ markersLayer' = IF layersReady' THEN markersLayer \o drawStops' ELSE markersLayer
    /\ shapesLayer'  = IF layersReady' THEN shapesLayer \o drawShapes' ELSE shapesLayer
    /\ drawCalls' = <<"drawStops", "drawShapes">>

\* redraw = drawStops(); drawShapes()
redraw ==
    /\ markersLayer' = IF layersReady' THEN drawStops' ELSE markersLayer
    /\ shapesLayer'  = IF layersReady' THEN drawShapes' ELSE shapesLayer
    /\ drawCalls' = <<"drawStops", "drawShapes">>

----------------------------------------------------------------------------
(* Initial state and handlers *)

Init ==
    /\ \E d \in Datasets :
        /\ stopsData = d.stops
        /\ stopsMeta = d.meta
        /\ shapesData = d.shapes
    /\ mounted = FALSE
    /\ layersReady = FALSE
    /\ markersLayer = <<>>
    /\ shapesLayer = <<>>
    /\ showStops = TRUE
    /\ showBus = TRUE
    /\ showTram = TRUE
    /\ showAllLines = FALSE
    /\ searchQuery = <<>>
    /\ selectedLines = {}
    /\ drawCalls = <<>>


\* variant: the first rendering expands the list of lines
onMounted_expandsList ==
    /\ ~mounted
    /\ mounted' = TRUE
    /\ layersReady' = TRUE
    /\ showAllLines' = TRUE
    /\ UNCHANGED <<dataVars, showStops, showBus, showTram, searchQuery, selectedLines>>
    /\ shapesLayer' = drawShapes'
    /\ markersLayer' = drawStops'
    /\ drawCalls' = <<"drawShapes", "drawStops">>

\* onMounted: the map container is in the template, so initMap always runs;
\* then drawShapes(), drawStops()
onMounted ==
    /\ ~mounted
    /\ mounted' = TRUE
    /\ layersReady' = TRUE
    /\ UNCHANGED <<dataVars, filterVars>>
    /\ shapesLayer' = drawShapes'
    /\ markersLayer' = drawStops'
    /\ drawCalls' = <<"drawShapes", "drawStops">>


\* variant: the master switch forgets to redraw the markers
toggleStopsMaster_noDraw ==
    /\ mounted
    /\ showStops' = ~showStops
    /\ UNCHANGED <<dataVars, mounted, layersReady, showBus, showTram, showAllLines,
                   searchQuery, selectedLines>>
    /\ UNCHANGED <<markersLayer, shapesLayer>>
    /\ drawCalls' = <<>>

toggleStopsMaster ==
    /\ mounted
    /\ showStops' = ~showStops
    /\ UNCHANGED <<dataVars, mounted, layersReady, showBus, showTram, showAllLines,
                   searchQuery, selectedLines>>
    /\ markersLayer' = IF layersReady' THEN drawStops' ELSE markersLayer
    /\ UNCHANGED shapesLayer
    /\ drawCalls' = <<"drawStops">>


\* variant: the mode switch redraws the markers only
toggleType_stopsOnly(type) ==
    /\ mounted
    /\ showBus' = IF type = "bus" THEN ~showBus ELSE showBus
    /\ showTram' = IF type = "tram" THEN ~showTram ELSE showTram
    /\ UNCHANGED <<dataVars, mounted, layersReady, showStops, showAllLines,
                   searchQuery, selectedLines>>
    /\ markersLayer' = IF layersReady' THEN drawStops' ELSE markersLayer
    /\ UNCHANGED shapesLayer
    /\ drawCalls' = <<"drawStops">>


\* variant: the last shown mode cannot be hidden
toggleType_keepsOneMode(type) ==
    /\ mounted
    /\ ~(type = "bus" /\ showBus /\ ~showTram)
    /\ ~(type = "tram" /\ showTram /\ ~showBus)
    /\ showBus' = IF type = "bus" THEN ~showBus ELSE showBus
    /\ showTram' = IF type = "tram" THEN ~showTram ELSE showTram
    /\ UNCHANGED <<dataVars, mounted, layersReady, showStops, showAllLines,
                   searchQuery, selectedLines>>
    /\ redraw

toggleType(type) ==
    /\ mounted
    /\ showBus' = IF type = "bus" THEN ~showBus ELSE showBus
    /\ showTram' = IF type = "tram" THEN ~showTram ELSE showTram
    /\ UNCHANGED <<dataVars, mounted, layersReady, showStops, showAllLines,
                   searchQuery, selectedLines>>
    /\ redraw


\* variant: a line click redraws the markers only
toggleLine_stopsOnly(lineName) ==
    /\ mounted
    /\ selectedLines' = IF lineName \in selectedLines
                        THEN selectedLines \ {lineName}
                        ELSE selectedLines \cup {lineName}
    /\ UNCHANGED <<dataVars, mounted, layersReady, showStops, showBus, showTram,
                   showAllLines, searchQuery>>
    /\ markersLayer' = IF layersReady' THEN drawStops' ELSE markersLayer
    /\ UNCHANGED shapesLayer
    /\ drawCalls' = <<"drawStops">>


\* variant: a line click also collapses the list of lines
toggleLine_collapsesList(lineName) ==
    /\ mounted
    /\ selectedLines' = IF lineName \in selectedLines
                        THEN selectedLines \ {lineName}
                        ELSE selectedLines \cup {lineName}
    /\ showAllLines' = FALSE
    /\ UNCHANGED <<dataVars, mounted, layersReady, showStops, showBus, showTram,
                   searchQuery>>
    /\ redraw

toggleLine(lineName) ==
    /\ mounted
    /\ selectedLines' = IF lineName \in selectedLines
                        THEN selectedLines \ {lineName}
                        ELSE selectedLines \cup {lineName}
    /\ UNCHANGED <<dataVars, mounted, layersReady, showStops, showBus, showTram,
                   showAllLines, searchQuery>>
    /\ redraw


\* variant: the selection is emptied and nothing is drawn again
clearLineSelection_noRedraw ==
    /\ mounted
    /\ selectedLines' = {}
    /\ UNCHANGED <<dataVars, mounted, layersReady, showStops, showBus, showTram,
                   showAllLines, searchQuery>>
    /\ UNCHANGED <<markersLayer, shapesLayer>>
    /\ drawCalls' = <<>>

clearLineSelection ==
    /\ mounted
    /\ selectedLines' = {}
    /\ UNCHANGED <<dataVars, mounted, layersReady, showStops, showBus, showTram,
                   showAllLines, searchQuery>>
    /\ redraw

\* <input v-model="searchQuery">: an input event stores the new text
setSearchQuery(text) ==
    /\ mounted
    /\ text # searchQuery
    /\ searchQuery' = text
    /\ UNCHANGED <<dataVars, mounted, layersReady, markersLayer, shapesLayer, showStops,
                   showBus, showTram, showAllLines, selectedLines>>
    /\ drawCalls' = <<>>

\* the more-link: @click="showAllLines = !showAllLines"
toggleShowAllLines ==
    /\ mounted
    /\ showAllLines' = ~showAllLines
    /\ UNCHANGED <<dataVars, mounted, layersReady, markersLayer, shapesLayer, showStops,
                   showBus, showTram, searchQuery, selectedLines>>
    /\ drawCalls' = <<>>

----------------------------------------------------------------------------
(* What the template lets the user do *)


\* variant: the list offers the lines of the route shapes as well
ClickableLines_withShapes ==
    {l.name : l \in Range(displayedLines)} \cup
    {shapesData[i].route_name : i \in 1..Len(shapesData)}

\* v-for="line in stats.displayedLines" ... @click="toggleLine(line.name)"
ClickableLines == {l.name : l \in Range(displayedLines)}

\* v-if="selectedLines.size > 0" on the clear button
ClearShown == Cardinality(selectedLines) > 0

\* v-if="searchQuery === '' && stats.totalLines > 6" on the more-link
MoreLinkShown == searchQuery = <<>> /\ stats.totalLines > SliceLimit

ClickHeader    == toggleStopsMaster
ClickBusRow    == toggleType("bus")
ClickTramRow   == toggleType("tram")
ClickLineRow   == \E lineName \in ClickableLines : toggleLine(lineName)
ClickClear     == ClearShown /\ clearLineSelection
TypeSearch     == \E text \in SearchTexts : setSearchQuery(text)
ClickMoreLink  == MoreLinkShown /\ toggleShowAllLines

Next ==
    \/ onMounted
    \/ ClickHeader
    \/ ClickBusRow
    \/ ClickTramRow
    \/ ClickLineRow
    \/ ClickClear
    \/ TypeSearch
    \/ ClickMoreLink

Spec == Init /\ [][Next]_vars

\* toggleLine(lineName: string) takes any name.  The names below are the
\* lines of the dataset, those of the route shapes included: a shape's line
\* need not be a line of any stop.
LineNames ==
    UNION {{stopsMeta[id].lines[i] : i \in 1..Len(stopsMeta[id].lines)} : id \in DOMAIN stopsMeta}
      \cup {shapesData[i].route_name : i \in 1..Len(shapesData)}

CallToggleLine == \E lineName \in LineNames : toggleLine(lineName)

\* the search box, with short texts: the text does not enter the selection,
\* the stops or the layers
TypeShortSearch ==
    \E text \in SeqsUpTo(SearchAlphabet, MaxShortSearchLen) : setSearchQuery(text)

\* the handlers, with toggleLine called on any line name
NextAnyLine ==
    \/ onMounted
    \/ ClickHeader
    \/ ClickBusRow
    \/ ClickTramRow
    \/ CallToggleLine
    \/ ClickClear
    \/ TypeShortSearch
    \/ ClickMoreLink

SpecAnyLine == Init /\ [][NextAnyLine]_vars

----------------------------------------------------------------------------
(* Properties.  The conditions below are written from the data alone, not   *)
(* through the computed properties they are compared with.                  *)

StopIsTram(s) == s.stop_id \in DOMAIN stopsMeta /\ stopsMeta[s.stop_id].is_tram
StopLines(s)  == IF s.stop_id \in DOMAIN stopsMeta THEN Range(stopsMeta[s.stop_id].lines) ELSE {}
ModeShown(s)  == (StopIsTram(s) /\ showTram) \/ (~StopIsTram(s) /\ showBus)
LineSelected(s) == selectedLines = {} \/ StopLines(s) \cap selectedLines # {}

\* s is a subsequence of t, both without repetition
IsSubSeqOf(s, t) ==
    /\ Range(s) \subseteq Range(t)
    /\ \A i, j \in 1..Len(s) : i < j =>
          \E a, b \in 1..Len(t) : a < b /\ t[a] = s[i] /\ t[b] = s[j]

\* C1: a stop is in visibleStops iff showStops holds, its mode is shown and
\* either no line is selected or one of its lines is; visibleStops is empty
\* whenever showStops is false.
C1_VisibleStops ==
    LET shown == visibleStops
    IN  /\ \A i \in 1..Len(stopsData) :
              (stopsData[i] \in Range(shown)) <=>
                 (showStops /\ ModeShown(stopsData[i]) /\ LineSelected(stopsData[i]))
        /\ Range(shown) \subseteq Range(stopsData)
        /\ ~showStops => shown = <<>>

\* the line filter has dropped a stop that the type filter kept
C1_Witness ==
    /\ mounted /\ showStops /\ selectedLines # {}
    /\ visibleStops # <<>>
    /\ Len(visibleStops) < Len(stopsFilteredByType)

\* C2: once mounted, the marker layer holds one marker per stop of
\* visibleStops, in that order, and nothing else.
C2_MarkersFollowVisibleStops ==
    mounted =>
      LET shown == visibleStops
      IN
        /\ Len(markersLayer) = Len(shown)
        /\ \A i \in 1..Len(markersLayer) : markersLayer[i] = markerFor(shown[i])
        /\ \A i, j \in 1..Len(markersLayer) :
              i # j => markersLayer[i].stop_id # markersLayer[j].stop_id

\* markers were cleared by the master switch and drawn again, under a selection
C2_Witness ==
    /\ mounted /\ drawCalls = <<"drawStops">> /\ showStops
    /\ selectedLines # {}
    /\ markersLayer # <<>>
    /\ Len(markersLayer) < Len(stopsData)

ShapePasses(shape) ==
    /\ showBus \/ showTram
    /\ selectedLines = {} \/ shape.route_name \in selectedLines

\* C3: once mounted, the polyline layer holds one polyline per shape that
\* passes the shape filter, in dataset order, also after the handlers that
\* do not call drawShapes.
C3_PolylinesFollowShapeFilter ==
    mounted =>
        LET kept == SelectSeq(shapesData, ShapePasses)
        IN  /\ Len(shapesLayer) = Len(kept)
            /\ \A i \in 1..Len(kept) : shapesLayer[i] = polylineFor(kept[i])

\* the last handler drew no shape, and the layer shows part of the shapes
C3_Witness ==
    /\ mounted /\ "drawShapes" \notin Range(drawCalls)
    /\ ~showStops /\ selectedLines # {}
    /\ shapesLayer # <<>>
    /\ Len(shapesLayer) < Len(shapesData)

\* C4: a shape is drawn iff a mode is shown and either no line is selected
\* or its line is; with bus hidden, tram shown and no selection every shape
\* is drawn.
C4_ShapeFilter ==
    mounted =>
        /\ \A i \in 1..Len(shapesData) :
              (polylineFor(shapesData[i]) \in Range(shapesLayer)) <=> ShapePasses(shapesData[i])
        /\ (~showBus /\ showTram /\ selectedLines = {}) => Len(shapesLayer) = Len(shapesData)

\* bus hidden, tram shown, stops hidden, nothing selected: all shapes drawn
C4_Witness ==
    /\ mounted /\ ~showBus /\ showTram /\ ~showStops /\ selectedLines = {}
    /\ shapesLayer # <<>>
    /\ Len(shapesLayer) = Len(shapesData)

\* C5 as stated: every user action is followed by drawStops and drawShapes.
C5_EveryActionRedrawsBoth ==
    [][mounted => Range(drawCalls') = {"drawStops", "drawShapes"}]_vars

\* C5: a mode switch, a line click and the clear button call drawStops then
\* drawShapes; the master switch calls drawStops only; the search box and
\* the more-link call neither.
C5_RedrawPerAction ==
    [][mounted =>
        /\ (showBus' # showBus \/ showTram' # showTram \/ selectedLines' # selectedLines)
              => drawCalls' = <<"drawStops", "drawShapes">>
        /\ (showStops' # showStops) => drawCalls' = <<"drawStops">>
        /\ (searchQuery' # searchQuery \/ showAllLines' # showAllLines) => drawCalls' = <<>>
      ]_vars

\* the master switch has hidden the stops and drawn the markers only
C5_Witness ==
    /\ mounted /\ drawCalls = <<"drawStops">> /\ ~showStops
    /\ markersLayer = <<>>
    /\ shapesLayer # <<>>

\* the ranked lines whose name contains the search text, case ignored
MatchingRanked ==
    LET q == toLowerCase(searchQuery)
    IN  {e \in Range(rankedLines) : includes(toLowerCase(e.name), q)}

\* C6 as stated: any non-empty search text, blank ones included, keeps
\* exactly the lines that contain it.
C6_AnyNonEmptyTextFilters ==
    searchQuery # <<>> =>
        LET d == stats.displayedLines
            r == rankedLines
        IN  Range(d) = MatchingRanked /\ IsSubSeqOf(d, r)

\* C6: a search text with a non-blank character keeps exactly the ranked
\* lines whose name contains the text as typed (padding included), case
\* ignored, in ranking order; an empty or blank text removes no line.
C6_SearchFilter ==
    /\ trim(searchQuery) # <<>> =>
          LET d == stats.displayedLines
              r == rankedLines
          IN  Range(d) = MatchingRanked /\ IsSubSeqOf(d, r)
    /\ trim(searchQuery) = <<>> => sortedLines = rankedLines

\* a padded search text has kept a line and removed another
C6_Witness ==
    /\ mounted
    /\ trim(searchQuery) # <<>> /\ trim(searchQuery) # searchQuery
    /\ stats.displayedLines # <<>>
    /\ Len(stats.displayedLines) < Len(rankedLines)

\* the stops the scan of the aggregation visits, by position in the dataset
ScannedStops == {i \in 1..Len(stopsData) :
                    stopsData[i].stop_id \in DOMAIN stopsMeta /\ ModeShown(stopsData[i])}

\* where the scan first meets a line: (stop position, position in its list)
FirstSeen(name) ==
    LET linesAt(i) == stopsMeta[stopsData[i].stop_id].lines
        hits == UNION { {<<i, k>> : k \in {n \in 1..Len(linesAt(i)) : linesAt(i)[n] = name}} :
                        i \in ScannedStops }
    IN  CHOOSE p \in hits : \A q \in hits : p[1] < q[1] \/ (p[1] = q[1] /\ p[2] <= q[2])

Earlier(p, q) == p[1] < q[1] \/ (p[1] = q[1] /\ p[2] < q[2])

\* C7: the list before search and truncation is sorted by count descending,
\* lines with equal counts in the order the scan first met them; the tram
\* stop on T1 and the bus stop on L1, T1 give T1:2, L1:1.
C7_RankingStable ==
    /\ LET r == rankedLines
       IN  \A i, j \in 1..Len(r) : i < j =>
              /\ r[i].count >= r[j].count
              /\ r[i].count = r[j].count => Earlier(FirstSeen(r[i].name), FirstSeen(r[j].name))
    /\ (stopsMeta = ScenarioDataset.meta /\ stopsData = ScenarioDataset.stops
           /\ showBus /\ showTram) =>
          rankedLines = << [name |-> T1, count |-> 2], [name |-> L1, count |-> 1] >>

\* the sort has moved a line in front of lines met earlier, and kept a tie
C7_Witness ==
    /\ mounted
    /\ rankedLines # linesMap
    /\ LET r == rankedLines
       IN  \E i, j \in 1..Len(r) : i < j /\ r[i].count = r[j].count

\* C8: the displayed list is the first 6 entries of the filtered list when
\* showAllLines is false and the search text is empty, the whole list
\* otherwise; it is always a prefix of it.
C8_Truncation ==
    LET n == Len(sortedLines)
        d == stats.displayedLines
    IN  /\ (~showAllLines /\ searchQuery = <<>>) => Len(d) = (IF n < 6 THEN n ELSE 6)
        /\ (showAllLines \/ searchQuery # <<>>) => Len(d) = n
        /\ Len(d) <= n
        /\ \A i \in 1..Len(d) : d[i] = sortedLines[i]

\* seven lines on offer, six displayed
C8_Witness ==
    /\ mounted /\ ~showAllLines /\ searchQuery = <<>>
    /\ Len(sortedLines) > 6
    /\ Len(stats.displayedLines) = 6
    /\ selectedLines # {}

\* the stops of the dataset whose mode is shown and whose lines contain name
StopsOnLine(name) ==
    {i \in 1..Len(stopsData) : ModeShown(stopsData[i]) /\ name \in StopLines(stopsData[i])}

LineCountsFromTypeFilter ==
    LET r == rankedLines
    IN  /\ \A i \in 1..Len(r) : r[i].count = Cardinality(StopsOnLine(r[i].name))
        /\ {r[i].name : i \in 1..Len(r)} =
              UNION {StopLines(stopsData[i]) : i \in {j \in 1..Len(stopsData) : ModeShown(stopsData[j])}}
        /\ \A i, j \in 1..Len(r) : i # j => r[i].name # r[j].name

\* C9: the count of a line is always the number of type-filtered stops on
\* it, and a step that changes showStops or selectedLines leaves stats as it
\* was.
C9_StatsIgnoreSelection ==
    /\ []LineCountsFromTypeFilter
    /\ [][(showStops' # showStops \/ selectedLines' # selectedLines) => stats' = stats]_vars

\* stops hidden and a line selected that only some stops serve: the list
\* still offers every line
C9_Witness ==
    /\ mounted /\ ~showStops /\ selectedLines # {}
    /\ Len(stats.displayedLines) > Cardinality(selectedLines)
    /\ \E i \in 1..Len(stopsFilteredByType) : ~LineSelected(stopsFilteredByType[i])

\* C10: every selected line is a line of some stop's metadata.
C10_SelectionFromData ==
    \A l \in selectedLines : \E id \in DOMAIN stopsMeta : l \in Range(stopsMeta[id].lines)

\* a selected line that is no longer in the displayed list
C10_Witness ==
    /\ mounted /\ selectedLines # {}
    /\ \E l \in selectedLines : l \notin ClickableLines

\* C11: once mounted, both layers are what the drawing functions give for
\* the dataset and the filter fields of the current state, whatever handlers
\* ran before; states with equal data and filter fields have equal layers,
\* and one more redraw would leave them as they are.
C11_LayersDependOnFiltersOnly ==
    mounted => (markersLayer = drawStops /\ shapesLayer = drawShapes)

\* every filter field is back at its initial value after handlers that
\* redrew both layers, and the layers are not empty
C11_Witness ==
    /\ mounted /\ drawCalls = <<"drawStops", "drawShapes">>
    /\ showStops /\ showBus /\ showTram /\ ~showAllLines
    /\ searchQuery = <<>> /\ selectedLines = {}
    /\ markersLayer # <<>> /\ shapesLayer # <<>>

\* some line is selected and no stop of the dataset is on a selected line
ForeignSelection ==
    /\ selectedLines # {}
    /\ \A i \in 1..Len(stopsData) : StopLines(stopsData[i]) \cap selectedLines = {}

\* C12: while the selection is not empty and holds no line of any stop,
\* visibleStops and the marker layer are empty; they stay empty over every
\* step that leaves the selection as it is; the step that empties the
\* selection brings back one marker per stop of a shown mode when showStops
\* holds.
C12_ForeignSelectionShowsNoStop ==
    /\ []((mounted /\ ForeignSelection) => (visibleStops = <<>> /\ markersLayer = <<>>))
    /\ [][(mounted /\ ForeignSelection /\ selectedLines' = selectedLines)
             => markersLayer' = <<>>]_vars
    /\ [][(mounted /\ ForeignSelection /\ selectedLines' = {} /\ showStops)
             => Len(markersLayer') =
                  Cardinality({i \in 1..Len(stopsData) : ModeShown(stopsData[i])})]_vars

\* a line of a shape alone is selected; the master switch has just been
\* turned on again, stops pass the type filter and no marker is drawn
C12_Witness ==
    /\ mounted /\ ForeignSelection /\ showStops
    /\ drawCalls = <<"drawStops">>
    /\ stopsFilteredByType # <<>>
    /\ markersLayer = <<>>

\* the filter fields a step writes
ChangedFilterFields ==
    {k \in 1..6 : CASE k = 1 -> showStops' # showStops
                    [] k = 2 -> showBus' # showBus
                    [] k = 3 -> showTram' # showTram
                    [] k = 4 -> showAllLines' # showAllLines
                    [] k = 5 -> searchQuery' # searchQuery
                    [] k = 6 -> selectedLines' # selectedLines}

\* C13: no step writes the dataset; the step that only renders (the first
\* drawing at mount) writes no filter field; a step that writes a filter
\* field comes after mount, where only the user actions run, and writes
\* that one field although it may render both layers.
C13_RenderingWritesNoFilter ==
    [][ /\ dataVars' = dataVars
        /\ ~mounted => filterVars' = filterVars
        /\ filterVars' # filterVars =>
              /\ mounted
              /\ Cardinality(ChangedFilterFields) = 1
      ]_vars

\* the state right after the first rendering: both layers drawn, every
\* filter field as initialised
C13_Witness ==
    /\ mounted /\ drawCalls = <<"drawShapes", "drawStops">>
    /\ markersLayer # <<>> /\ shapesLayer # <<>>
    /\ showStops /\ showBus /\ showTram /\ ~showAllLines
    /\ searchQuery = <<>> /\ selectedLines = {}

\* every handler can run: none has a path that stops before its end;
\* toggleLine is tried on a selected line (which it removes) and on a line
\* that is never selected (which it adds)
HandlersRun ==
    /\ ENABLED toggleStopsMaster
    /\ ENABLED toggleType("bus")
    /\ ENABLED toggleType("tram")
    /\ ENABLED toggleLine(B7)
    /\ selectedLines # {} => ENABLED (\E lineName \in selectedLines : toggleLine(lineName))
    /\ ENABLED clearLineSelection
    /\ \E text \in SearchTexts : ENABLED setSearchQuery(text)
    /\ ENABLED toggleShowAllLines

\* nothing to show: no stop, no line in the list, no count, no marker
NothingShown ==
    /\ visibleStops = <<>>
    /\ stats.displayedLines = <<>> /\ stats.totalLines = 0
    /\ stats.busCount = 0 /\ stats.tramCount = 0
    /\ markersLayer = <<>>

\* C14: once mounted, every handler can run in every state; with an empty
\* dataset or with both modes hidden there is no visible stop, no line in
\* the list, no marker and no polyline, and with the stops hidden there is
\* no visible stop and no marker.
C14_HandlersAlwaysRun ==
    [](mounted =>
          /\ HandlersRun
          /\ (stopsData = <<>> /\ shapesData = <<>>) => (NothingShown /\ shapesLayer = <<>>)
          /\ (~showBus /\ ~showTram) => (NothingShown /\ shapesLayer = <<>>)
          /\ ~showStops => (visibleStops = <<>> /\ markersLayer = <<>>))

\* a dataset with stops and shapes, a line selected, both modes hidden by
\* the last handler: both layers are empty
C14_Witness ==
    /\ mounted /\ stopsData # <<>> /\ shapesData # <<>>
    /\ ~showBus /\ ~showTram /\ showStops /\ selectedLines # {}
    /\ drawCalls = <<"drawStops", "drawShapes">>
    /\ markersLayer = <<>> /\ shapesLayer = <<>>
    /\ stats.displayedLines = <<>>

\* the stops of the dataset that have no metadata entry
BareStops == {i \in 1..Len(stopsData) : stopsData[i].stop_id \notin DOMAIN stopsMeta}

ShapesOfLine(line) == {i \in 1..Len(shapesData) : shapesData[i].route_name = line}

\* C16: once mounted, every badge has the colour of the last shape of its
\* line in dataset order, and "#3b82f6" exactly when the line has no shape;
\* a marker has the tram icon iff the metadata of its stop says is_tram,
\* the bus icon otherwise.
C16_BadgeColourAndIcon ==
    mounted =>
        \A k \in 1..Len(markersLayer) :
            LET marker == markersLayer[k]
            IN  /\ \A b \in 1..Len(marker.badges) :
                      LET of == ShapesOfLine(marker.badges[b].line)
                      IN  /\ of # {} => marker.badges[b].color = shapesData[MaxOf(of)].color
                          /\ of = {} <=> marker.badges[b].color = "#3b82f6"
                /\ marker.icon \in {"tramSVG", "busSVG"}
                /\ marker.icon = "tramSVG" <=>
                      /\ marker.stop_id \in DOMAIN stopsMeta
                      /\ stopsMeta[marker.stop_id].is_tram

\* a tram marker with a badge of a line without shape and a badge of a line
\* whose two shapes differ in colour
C16_Witness ==
    /\ mounted
    /\ \E k \in 1..Len(markersLayer) :
          /\ markersLayer[k].icon = "tramSVG"
          /\ \E a, b \in 1..Len(markersLayer[k].badges) :
                /\ markersLayer[k].badges[a].color = "#3b82f6"
                /\ ShapesOfLine(markersLayer[k].badges[b].line) # {}
                /\ \E i, j \in ShapesOfLine(markersLayer[k].badges[b].line) :
                      shapesData[i].color # shapesData[j].color

\* markers and polylines are those of the selected lines, listed or not
SelectionFilters ==
    /\ \A k \in 1..Len(markersLayer) :
          \E i \in 1..Len(stopsData) :
              /\ stopsData[i].stop_id = markersLayer[k].stop_id
              /\ StopLines(stopsData[i]) \cap selectedLines # {}
    /\ \A k \in 1..Len(shapesLayer) : shapesLayer[k].route_name \in selectedLines
    /\ Len(markersLayer) =
          IF showStops
          THEN Cardinality({i \in 1..Len(stopsData) :
                  ModeShown(stopsData[i]) /\ StopLines(stopsData[i]) \cap selectedLines # {}})
          ELSE 0

\* C17: once mounted, while a line is selected the clear button can be
\* clicked and the selected lines, listed in the sidebar or not, filter
\* markers and polylines; the step that empties the selection leaves one
\* marker per stop of a shown mode when showStops holds and every shape
\* unless both modes are hidden; the steps that change another filter field
\* leave the selection as it is.
C17_ClearLineSelection ==
    /\ []((mounted /\ selectedLines # {}) => (ENABLED ClickClear /\ SelectionFilters))
    /\ [][(mounted /\ selectedLines # {} /\ selectedLines' = {}) =>
             /\ Len(markersLayer') =
                   (IF showStops
                    THEN Cardinality({i \in 1..Len(stopsData) : ModeShown(stopsData[i])})
                    ELSE 0)
             /\ Len(shapesLayer') = (IF showBus \/ showTram THEN Len(shapesData) ELSE 0)
          ]_vars
    /\ [][(showStops' # showStops \/ showBus' # showBus \/ showTram' # showTram
              \/ searchQuery' # searchQuery \/ showAllLines' # showAllLines)
             => selectedLines' = selectedLines]_vars

\* the search text has removed a selected line from the list; the line
\* still keeps some stops off the map
C17_Witness ==
    /\ mounted /\ showStops /\ searchQuery # <<>>
    /\ \E l \in selectedLines : l \notin ClickableLines
    /\ markersLayer # <<>>
    /\ Len(markersLayer) < Len(stopsFilteredByType)

\* the lines a step adds to or removes from the selection
ToggledLines == (selectedLines' \ selectedLines) \cup (selectedLines \ selectedLines')

\* the same handler run again after the step gives back the state before
\* the step: it can run, it flips back the one field the step flipped, and
\* what it draws is what the layer held before the step
RunAgainRestores(field) ==
    /\ mounted'
    /\ field = "showStops" <=> showStops' # showStops
    /\ field = "showBus" <=> showBus' # showBus
    /\ field = "showTram" <=> showTram' # showTram
    /\ field = "showAllLines" <=> showAllLines' # showAllLines
    /\ field = "selectedLines" <=> selectedLines' # selectedLines
    /\ searchQuery' = searchQuery
    /\ dataVars' = dataVars
    /\ IF field = "showStops" THEN markersLayer = drawStops /\ shapesLayer' = shapesLayer
       ELSE IF field = "showAllLines" THEN markersLayer' = markersLayer /\ shapesLayer' = shapesLayer
       ELSE markersLayer = drawStops /\ shapesLayer = drawShapes

TypedStops == {i \in 1..Len(stopsData) : ModeShown(stopsData[i])}

\* C19: busCount is the number of stops of a shown mode that have metadata
\* with is_tram false, tramCount the number with is_tram true, whatever
\* showStops, the selection and the search text are; busCount is 0 when
\* showBus is false and tramCount is 0 when showTram is false; their sum is
\* at most the number of type-filtered stops, and equal to it iff each of
\* these stops has metadata.
C19_ModeCounters ==
    LET withMeta == {i \in TypedStops : stopsData[i].stop_id \in DOMAIN stopsMeta}
        bus      == busCount
        tram     == tramCount
        typed    == Len(stopsFilteredByType)
    IN  /\ bus = Cardinality({i \in withMeta : ~stopsMeta[stopsData[i].stop_id].is_tram})
        /\ tram = Cardinality({i \in withMeta : stopsMeta[stopsData[i].stop_id].is_tram})
        /\ ~showBus => bus = 0
        /\ ~showTram => tram = 0
        /\ bus + tram <= typed
        /\ (bus + tram = typed) <=> (withMeta = TypedStops)
        /\ typed = Cardinality(TypedStops)

\* stops hidden, a search text typed: a stop without metadata passes the
\* type filter and is in neither count
C19_Witness ==
    /\ mounted /\ ~showStops /\ showBus /\ searchQuery # <<>>
    /\ busCount + tramCount < Len(stopsFilteredByType)

====
